---- MODULE Spec2Model ----
(***************************************************************************)
(* A model of src/src/generate_feeds.py: the feed generator that scrapes   *)
(* news items from a page and writes one RSS file per configured site.     *)
(*                                                                         *)
(* Abstractions.                                                           *)
(*  - Text is a sequence of one-character strings.                         *)
(*  - The CSS selector engine is a black box: a page records, for every    *)
(*    selector of a configured chain, what the engine returns for it.      *)
(*    page.found[i] is soup.select(cfg.item_selectors[i]) in document      *)
(*    order; for an item element it, it.title[j], it.link[j] and           *)
(*    it.date[j] are it.select_one(...) of the j-th selector of the        *)
(*    title, link and date chain.                                          *)
(*  - An href is an integer: -1 the attribute is absent (Python None),     *)
(*    0 the empty string, k > 0 the path "/k".  A URL is <<site, path>>,   *)
(*    path 0 being the page_url of the site itself.                        *)
(*  - A datetime is a record: now = TRUE with the clock reading t, or      *)
(*    now = FALSE with year, month, day.                                   *)
(***************************************************************************)
EXTENDS Integers, Sequences, FiniteSets, TLC

VARIABLES
    configs,    \* main: the list of SiteConfig records
    web,        \* slug -> what fetch(cfg.page_url) answers
    endpoints,  \* slug -> what fetch answers for each guessed RSS endpoint
    files,      \* slug -> contents of docs/rss/<slug>.xml
    stdout,     \* the lines printed so far
    pc,         \* position of the run
    idx,        \* main: number of sites finished
    soup,       \* scrape_items: the parsed page
    pi,         \* try_fetch_rss: number of candidates tried
    guessed,    \* scrape_items: result of try_fetch_rss (0 is None)
    si,         \* scrape_items: number of item selectors tried
    container,  \* scrape_items: the container list (<<>> is None)
    k,          \* scrape_items: number of container elements processed
    items,      \* scrape_items: the accumulated items
    origin,     \* history: origin[n] is the container index items[n] came from
    clock,      \* the UTC clock, read by datetime.now
    fg,         \* build_rss: the entries of the FeedGenerator, in feed order
    ne,         \* build_rss: number of items added to the feed
    err         \* the exception that ended the run ("none" while running)

vars == <<configs, web, endpoints, files, stdout, pc, idx, soup, pi, guessed,
          si, container, k, items, origin, clock, fg, ne, err>>

-----------------------------------------------------------------------------
(* Bounds of the explored inputs.                                          *)

\* longest selector chain of a harness configuration
MaxSel == 2
\* longest match list of a harness page
MaxElems == 2
\* how far a long match list extends past the cap
MaxExtra == 2

(* Program constants.                                                      *)

\* container[:30]
Cap == 30
\* the number of paths guess_common_rss_endpoints returns
NumEndpoints == 5

-----------------------------------------------------------------------------
(* Text helpers.                                                           *)

IsSpace(c) == c \in {" ", "\n", "\t"}

IsDigit(c) == c \in {"0", "1", "2", "3", "4", "5", "6", "7", "8", "9"}

DigitVal(c) ==
    CASE c = "0" -> 0 [] c = "1" -> 1 [] c = "2" -> 2 [] c = "3" -> 3
      [] c = "4" -> 4 [] c = "5" -> 5 [] c = "6" -> 6 [] c = "7" -> 7
      [] c = "8" -> 8 [] c = "9" -> 9

RECURSIVE LStrip(_)
LStrip(s) ==
    IF s = <<>> THEN s
    ELSE IF IsSpace(Head(s)) THEN LStrip(Tail(s)) ELSE s

RECURSIVE RStrip(_)
RStrip(s) ==
    IF s = <<>> THEN s
    ELSE IF IsSpace(s[Len(s)]) THEN RStrip(SubSeq(s, 1, Len(s) - 1)) ELSE s

\* re.sub(r"\s+", " ", s): every maximal run of whitespace becomes one space
RECURSIVE SubSpaces(_)
SubSpaces(s) ==
    IF s = <<>> THEN <<>>
    ELSE IF IsSpace(Head(s)) THEN <<" ">> \o SubSpaces(LStrip(Tail(s)))
    ELSE <<Head(s)>> \o SubSpaces(Tail(s))

\* clean(s) = re.sub(r"\s+", " ", (s or "").strip())
clean(s) == SubSpaces(RStrip(LStrip(s)))

RECURSIVE TakeDigits(_)
TakeDigits(s) ==
    IF s = <<>> \/ ~IsDigit(Head(s)) THEN <<>>
    ELSE <<Head(s)>> \o TakeDigits(Tail(s))

RECURSIVE DropDigits(_)
DropDigits(s) ==
    IF s = <<>> \/ ~IsDigit(Head(s)) THEN s ELSE DropDigits(Tail(s))

\* re.findall(r"\d+", raw): the maximal runs of digits, left to right
RECURSIVE FindDigits(_)
FindDigits(s) ==
    IF s = <<>> THEN <<>>
    ELSE IF IsDigit(Head(s)) THEN <<TakeDigits(s)>> \o FindDigits(DropDigits(s))
    ELSE FindDigits(Tail(s))

\* int(p) of a run of digits
RECURSIVE ToInt(_)
ToInt(p) ==
    IF p = <<>> THEN 0
    ELSE 10 * ToInt(SubSeq(p, 1, Len(p) - 1)) + DigitVal(p[Len(p)])

-----------------------------------------------------------------------------
(* datetime and urljoin.                                                   *)

IsLeap(y) == (y % 4 = 0 /\ y % 100 # 0) \/ y % 400 = 0

DaysInMonth(y, m) ==
    IF m = 2 THEN (IF IsLeap(y) THEN 29 ELSE 28)
    ELSE IF m \in {4, 6, 9, 11} THEN 30 ELSE 31

\* datetime(y, m, d, tzinfo=utc) raises ValueError unless this holds
ValidDate(y, m, d) ==
    /\ y >= 1 /\ y <= 9999
    /\ m >= 1 /\ m <= 12
    /\ d >= 1 /\ d <= DaysInMonth(y, m)

Now(t) == [now |-> TRUE, t |-> t, y |-> 0, m |-> 0, d |-> 0]

Date(y, m, d) == [now |-> FALSE, t |-> 0, y |-> y, m |-> m, d |-> d]

\* urljoin(base, href): a falsy href (None or "") gives the base back
urljoin(site, href) == IF href <= 0 THEN <<site, 0>> ELSE <<site, href>>

-----------------------------------------------------------------------------
(* Elements of a page.                                                     *)

NoEl == [match |-> FALSE, text |-> <<>>, href |-> -1]

TextEl(t) == [match |-> TRUE, text |-> t, href |-> -1]

LinkEl(h) == [match |-> TRUE, text |-> <<>>, href |-> h]

Min(a, b) == IF a <= b THEN a ELSE b

\* a variant that iterates the whole container
CandidatesUncapped(c) == c

\* container[:30]
Candidates(c) == SubSeq(c, 1, Min(Len(c), Cap))

-----------------------------------------------------------------------------
(* The selector chains of the loop body of scrape_items.                   *)

\* a variant that stops at the first match with non-empty text
RECURSIVE TitleChainNonEmpty(_, _, _, _)
TitleChainNonEmpty(els, n, j, cur) ==
    IF j > n THEN cur
    ELSE IF els[j].match /\ clean(els[j].text) # <<>> THEN els[j]
    ELSE TitleChainNonEmpty(els, n, j + 1, els[j])

\* for ts in cfg.title_selectors: title_el = it.select_one(ts); if title_el: break
RECURSIVE TitleChain(_, _, _, _)
TitleChain(els, n, j, cur) ==
    IF j > n THEN cur
    ELSE IF els[j].match THEN els[j]
    ELSE TitleChain(els, n, j + 1, els[j])

\* for ls in cfg.link_selectors: link_el = it.select_one(ls);
\*     if link_el and link_el.get("href"): break
RECURSIVE LinkChain(_, _, _, _)
LinkChain(els, n, j, cur) ==
    IF j > n THEN cur
    ELSE IF els[j].match /\ els[j].href > 0 THEN els[j]
    ELSE LinkChain(els, n, j + 1, els[j])

\* d, m, y = map(int, parts[:3]); dt = datetime(y, m, d, tzinfo=timezone.utc)
ParseDate(raw, dflt) ==
    LET parts == FindDigits(raw) IN
    IF Len(parts) >= 3
    THEN LET d == ToInt(parts[1])
             m == ToInt(parts[2])
             y == ToInt(parts[3])
         IN  IF ValidDate(y, m, d)
             THEN [raised |-> FALSE, dt |-> Date(y, m, d)]
             ELSE [raised |-> TRUE, dt |-> dflt]
    ELSE [raised |-> FALSE, dt |-> dflt]

\* for ds in cfg.date_selectors: d_el = it.select_one(ds); if d_el: ...; break
RECURSIVE DateChain(_, _, _, _)
DateChain(els, n, j, dflt) ==
    IF j > n THEN [raised |-> FALSE, dt |-> dflt]
    ELSE IF els[j].match THEN ParseDate(clean(els[j].text), dflt)
    ELSE DateChain(els, n, j + 1, dflt)

\* if not title_el or not link_el: continue
Dropped(title_el, link_el) == ~title_el.match \/ ~link_el.match

TitleOf(cfg, it) == TitleChain(it.title, cfg.nTitle, 1, NoEl)

LinkOf(cfg, it) == LinkChain(it.link, cfg.nLink, 1, NoEl)

DateOf(cfg, it, t) == DateChain(it.date, cfg.nDate, 1, Now(t))

\* items.append({"title": title, "link": link, "date": dt})
ItemOf(cfg, it, t) ==
    [title |-> clean(TitleOf(cfg, it).text),
     link  |-> urljoin(cfg.slug, LinkOf(cfg, it).href),
     date  |-> DateOf(cfg, it, t).dt]

-----------------------------------------------------------------------------
(* The existing-feed probe.                                                *)

\* "<rss" in xml or "<feed" in xml
LooksLikeFeed(body) == body = "rss" \/ body = "feed"

\* find_existing_rss: the href of the alternate link of the head, resolved
HasHeadRss(page) == page.head.match /\ page.head.href > 0

Line(kind, slug, n) == [kind |-> kind, slug |-> slug, n |-> n]

-----------------------------------------------------------------------------
(* The feed.                                                               *)

\* fe.id, fe.title, fe.link, fe.pubDate
EntryOf(it) ==
    [id |-> it.link, title |-> it.title, link |-> it.link, pubDate |-> it.date]

\* fg.add_entry() is called without order: feedgen's default is
\* order='prepend', self.__feed_entries.insert(0, feedEntry)
add_entry(entries, fe) == <<fe>> \o entries

\* rss_str: FeedEntry.rss_entry raises ValueError('Required fields not set')
\* for an entry with neither title, description nor content
Serializable(entries) == \A n \in 1..Len(entries) : entries[n].title # <<>>

Absent == <<[id |-> <<"absent", 0>>, title |-> <<>>, link |-> <<"absent", 0>>,
             pubDate |-> Now(0)]>>

Stale == <<[id |-> <<"stale", 0>>, title |-> <<>>, link |-> <<"stale", 0>>,
            pubDate |-> Now(0)]>>

-----------------------------------------------------------------------------
(* The run.                                                                *)

Cfg == configs[idx + 1]

Locals == <<soup, pi, guessed, si, container, k, items, origin, fg, ne>>

NoPage == [status |-> "fail", head |-> NoEl, found |-> <<>>]

Raise(e) ==
    /\ err' = e
    /\ pc' = "failed"

\* a variant of main that isolates the failure and goes on with the next site
FetchFailIsolated ==
    /\ pc = "main" /\ idx < Len(configs)
    /\ web[Cfg.slug].status = "fail"
    /\ err' = "TransportError"
    /\ idx' = idx + 1
    /\ UNCHANGED <<configs, web, endpoints, files, stdout, pc, clock, Locals>>

\* main: for cfg in configs; build_rss; scrape_items: html = fetch(cfg.page_url)
\* raises when the request fails
FetchFail ==
    /\ pc = "main" /\ idx < Len(configs)
    /\ web[Cfg.slug].status = "fail"
    /\ Raise("TransportError")
    /\ UNCHANGED <<configs, web, endpoints, files, stdout, idx, clock, Locals>>

\* scrape_items: fetch, BeautifulSoup, find_existing_rss and its print
FetchPage ==
    /\ pc = "main" /\ idx < Len(configs)
    /\ web[Cfg.slug].status = "ok"
    /\ soup' = web[Cfg.slug]
    /\ stdout' = IF HasHeadRss(web[Cfg.slug])
                 THEN Append(stdout, Line("head", Cfg.slug, web[Cfg.slug].head.href))
                 ELSE stdout
    /\ pi' = 0 /\ guessed' = 0 /\ si' = 0 /\ container' = <<>> /\ k' = 0
    /\ items' = <<>> /\ origin' = <<>> /\ fg' = <<>> /\ ne' = 0
    /\ pc' = "probe"
    /\ UNCHANGED <<configs, web, endpoints, files, idx, clock, err>>

\* a variant without the try/except around fetch(u)
TryFetchRssUncaught ==
    /\ pc = "probe" /\ pi < NumEndpoints
    /\ LET body == endpoints[Cfg.slug][pi + 1] IN
       \/ /\ body = "fail"
          /\ pi' = pi + 1
          /\ Raise("TransportError")
          /\ UNCHANGED <<guessed, stdout>>
       \/ /\ body # "fail" /\ ~LooksLikeFeed(body)
          /\ pi' = pi + 1
          /\ UNCHANGED <<guessed, stdout, pc, err>>
       \/ /\ body # "fail" /\ LooksLikeFeed(body)
          /\ pi' = pi + 1
          /\ guessed' = pi + 1
          /\ stdout' = Append(stdout, Line("guessed", Cfg.slug, pi + 1))
          /\ pc' = "select"
          /\ UNCHANGED err
    /\ UNCHANGED <<configs, web, endpoints, files, idx, clock, soup, si,
                   container, k, items, origin, fg, ne>>

\* try_fetch_rss: one turn of the loop over the guessed endpoints
TryFetchRss ==
    /\ pc = "probe" /\ pi < NumEndpoints
    /\ LET body == endpoints[Cfg.slug][pi + 1] IN
       \/ /\ body = "fail"                      \* except Exception: continue
          /\ pi' = pi + 1
          /\ UNCHANGED <<guessed, stdout, pc>>
       \/ /\ body # "fail" /\ ~LooksLikeFeed(body)
          /\ pi' = pi + 1
          /\ UNCHANGED <<guessed, stdout, pc>>
       \/ /\ body # "fail" /\ LooksLikeFeed(body)    \* return u
          /\ pi' = pi + 1
          /\ guessed' = pi + 1
          /\ stdout' = Append(stdout, Line("guessed", Cfg.slug, pi + 1))
          /\ pc' = "select"
    /\ UNCHANGED <<configs, web, endpoints, files, idx, clock, err, soup, si,
                   container, k, items, origin, fg, ne>>

\* try_fetch_rss: the loop ends, return None
TryFetchRssNone ==
    /\ pc = "probe" /\ pi = NumEndpoints
    /\ pc' = "select"
    /\ UNCHANGED <<configs, web, endpoints, files, stdout, idx, clock, err, Locals>>

\* for sel in cfg.item_selectors: found = soup.select(sel); if found: break
SelectContainer ==
    /\ pc = "select" /\ si < Cfg.nItem
    /\ si' = si + 1
    /\ LET found == soup.found[si + 1] IN
       \/ /\ found # <<>>
          /\ container' = found
          /\ pc' = "items"
       \/ /\ found = <<>>
          /\ UNCHANGED <<container, pc>>
    /\ UNCHANGED <<configs, web, endpoints, files, stdout, idx, clock, err, soup,
                   pi, guessed, k, items, origin, fg, ne>>

\* a variant without the check, which goes on to the loop over no elements
NoContainerUnchecked ==
    /\ pc = "select" /\ si = Cfg.nItem
    /\ pc' = "items"
    /\ UNCHANGED <<configs, web, endpoints, files, stdout, idx, clock, err, Locals>>

\* if not container: raise RuntimeError("... Ne nalazim elemente ...")
NoContainer ==
    /\ pc = "select" /\ si = Cfg.nItem
    /\ Raise("NoContainer")
    /\ UNCHANGED <<configs, web, endpoints, files, stdout, idx, clock, Locals>>

\* one turn of: for it in container[:30]
ScrapeItem ==
    /\ pc = "items" /\ k < Len(Candidates(container))
    /\ LET it == Candidates(container)[k + 1] IN
       \/ /\ Dropped(TitleOf(Cfg, it), LinkOf(Cfg, it))
          /\ k' = k + 1
          /\ UNCHANGED <<items, origin, pc, err>>
       \/ /\ ~Dropped(TitleOf(Cfg, it), LinkOf(Cfg, it))
          /\ DateOf(Cfg, it, clock).raised
          /\ k' = k + 1
          /\ Raise("ValueError")
          /\ UNCHANGED <<items, origin>>
       \/ /\ ~Dropped(TitleOf(Cfg, it), LinkOf(Cfg, it))
          /\ ~DateOf(Cfg, it, clock).raised
          /\ k' = k + 1
          /\ items' = Append(items, ItemOf(Cfg, it, clock))
          /\ origin' = Append(origin, k + 1)
          /\ UNCHANGED <<pc, err>>
    /\ clock' = clock + 1
    /\ UNCHANGED <<configs, web, endpoints, files, stdout, idx, soup, pi, guessed,
                   si, container, fg, ne>>

\* if not items: raise RuntimeError("... nisam izvukao nijedan item ...")
NoneParsable ==
    /\ pc = "items" /\ k = Len(Candidates(container))
    /\ items = <<>>
    /\ Raise("NoneParsable")
    /\ UNCHANGED <<configs, web, endpoints, files, stdout, idx, clock, Locals>>

\* return items; build_rss: fg = FeedGenerator() ...
ReturnItems ==
    /\ pc = "items" /\ k = Len(Candidates(container))
    /\ items # <<>>
    /\ pc' = "feed"
    /\ UNCHANGED <<configs, web, endpoints, files, stdout, idx, clock, err, Locals>>

\* one turn of: for it in items: fe = fg.add_entry(); fe.id(...) ...
AddEntry ==
    /\ pc = "feed" /\ ne < Len(items)
    /\ fg' = add_entry(fg, EntryOf(items[ne + 1]))
    /\ ne' = ne + 1
    /\ UNCHANGED <<configs, web, endpoints, files, stdout, pc, idx, clock, err,
                   soup, pi, guessed, si, container, k, items, origin>>

\* fg.rss_str(pretty=True) raises before anything is written
SerializeFail ==
    /\ pc = "feed" /\ ne = Len(items)
    /\ ~Serializable(fg)
    /\ Raise("FeedError")
    /\ UNCHANGED <<configs, web, endpoints, files, stdout, idx, clock, Locals>>

\* out_path.write_bytes(fg.rss_str(pretty=True)); main: print(f"OK -> {p}")
WriteFeed ==
    /\ pc = "feed" /\ ne = Len(items)
    /\ Serializable(fg)
    /\ files' = [files EXCEPT ![Cfg.slug] = fg]
    /\ stdout' = Append(stdout, Line("ok", Cfg.slug, 0))
    /\ idx' = idx + 1
    /\ pc' = "main"
    /\ UNCHANGED <<configs, web, endpoints, clock, err, Locals>>

\* main: the loop over configs is exhausted
Finish ==
    /\ pc = "main" /\ idx = Len(configs)
    /\ pc' = "done"
    /\ UNCHANGED <<configs, web, endpoints, files, stdout, idx, clock, err, Locals>>

Next ==
    \/ FetchFail
    \/ FetchPage
    \/ TryFetchRss
    \/ TryFetchRssNone
    \/ SelectContainer
    \/ NoContainer
    \/ ScrapeItem
    \/ NoneParsable
    \/ ReturnItems
    \/ AddEntry
    \/ SerializeFail
    \/ WriteFeed
    \/ Finish

-----------------------------------------------------------------------------
(* The inputs explored: the registry of main with a few pages per site,    *)
(* and single-site configurations whose page varies one thing at a time.   *)

SiteConfig(slug, nI, nT, nL, nD) ==
    [slug |-> slug, nItem |-> nI, nTitle |-> nT, nLink |-> nL, nDate |-> nD]

\* main: configs = [SiteConfig(slug="cistoca", ...), ...], by chain lengths
Registry ==
    <<SiteConfig("cistoca", 5, 5, 3, 3),
      SiteConfig("autotrolej", 6, 5, 3, 3),
      SiteConfig("rijeka-plus", 5, 5, 3, 3)>>

Page(head, found) == [status |-> "ok", head |-> head, found |-> found]

Node(title, link, date) == [title |-> title, link |-> link, date |-> date]

TitleTexts ==
    {<<>>, <<" ", "\n">>, <<"a">>, <<" ", "a", "\n", " ", "b", "\t">>}

DateTexts ==
    {<<"T", "B", "A">>,
     <<"7", " ", "8">>,
     <<" ", "5", ".", " ", "3", ".", " ", "2", "0", "2", "4", "\n">>,
     <<"1", "2", ".", "3", "0", ".", "2", "0", "2", "4">>,
     <<"3", "1", ".", "2", ".", "2", "0", "2", "4">>,
     <<"2", "9", ".", "2", ".", "2", "0", "2", "4", " ", "1", "0", ":", "3", "0">>,
     <<"1", ".", "1", ".", "0">>}

TitleOpts == {NoEl} \cup {TextEl(t) : t \in TitleTexts}

LinkOpts == {NoEl, LinkEl(-1), LinkEl(0), LinkEl(1)}

DateOpts == {NoEl} \cup {TextEl(t) : t \in DateTexts}

Bodies == {"fail", "plain", "rss", "feed"}

Chains(opts) == UNION {[1..n -> opts] : n \in 0..MaxSel}

SeqsUpTo(S, n) == UNION {[1..m -> S] : m \in 0..n}

\* an item element of a single-selector configuration
Good(h) == Node(<<TextEl(<<"a">>)>>, <<LinkEl(h)>>, <<NoEl>>)

NoTitle(h) == Node(<<NoEl>>, <<LinkEl(h)>>, <<NoEl>>)

BasicNodes ==
    {Good(1), Good(2), NoTitle(3),
     Node(<<TextEl(<<" ">>)>>, <<LinkEl(4)>>, <<NoEl>>),
     Node(<<TextEl(<<"b">>)>>, <<LinkEl(-1)>>, <<TextEl(<<"T", "B", "A">>)>>)}

AllFail == [n \in 1..NumEndpoints |-> "fail"]

Input(cfgs, pages, eps, old) ==
    [configs |-> cfgs, web |-> pages, endpoints |-> eps, files |-> old]

\* one site "s" whose page is p
Single(cfg, p, eps) ==
    Input(<<cfg>>, [s \in {"s"} |-> p], [s \in {"s"} |-> eps],
          [s \in {"s"} |-> Absent])

\* the link chain varies
LinkInputs ==
    {Single(SiteConfig("s", 1, 1, Len(l), 1),
            Page(NoEl, <<<<Node(<<TextEl(<<"a">>)>>, l, <<NoEl>>)>>>>), AllFail)
       : l \in Chains(LinkOpts)}

\* the title chain varies
TitleInputs ==
    {Single(SiteConfig("s", 2, Len(t), 1, 1),
            Page(NoEl, <<<<Node(t, <<LinkEl(1)>>, <<NoEl>>)>>,
                         <<Node(t, <<LinkEl(2)>>, <<NoEl>>),
                           Node(t, <<LinkEl(3)>>, <<NoEl>>)>>>>), AllFail)
       : t \in Chains(TitleOpts)}

\* the date chain varies
DateInputs ==
    {Single(SiteConfig("s", 1, 1, 1, Len(d)),
            Page(NoEl, <<<<Node(<<TextEl(<<"a">>)>>, <<LinkEl(1)>>, d)>>>>), AllFail)
       : d \in Chains(DateOpts)}

\* the item selectors vary: selector i matches n usable elements, the p-th
\* of them linking to 10 * i + p
Matches(i, n) == [p \in 1..n |-> Good(10 * i + p)]

ContainerInputs ==
    UNION {{Single(SiteConfig("s", nI, 1, 1, 1),
                   Page(NoEl, [i \in 1..nI |-> Matches(i, lens[i])]), AllFail)
              : lens \in [1..nI -> 0..MaxElems]}
             : nI \in 0..MaxSel}

\* the elements of the one match list vary
ListInputs ==
    {Single(SiteConfig("s", 1, 1, 1, 1), Page(NoEl, <<l>>), AllFail)
       : l \in SeqsUpTo(BasicNodes, MaxElems)}

\* a match list of Cap or more elements: the elements lo..hi are usable
LongList(n, lo, hi) ==
    [p \in 1..n |-> IF lo <= p /\ p <= hi THEN Good(p) ELSE NoTitle(p)]

CapInputs ==
    UNION {{Single(SiteConfig("s", 1, 1, 1, 1),
                   Page(NoEl, <<LongList(n, lo, hi)>>), AllFail)
              : lo \in 1..n, hi \in 0..n}
             : n \in Cap..(Cap + MaxExtra)}

\* the answers of the guessed endpoints and the head of the page vary
ProbePages ==
    {Page(h, <<<<Good(1)>>>>) : h \in {NoEl, LinkEl(-1), LinkEl(0), LinkEl(7)}}
    \cup {Page(NoEl, <<<<>>>>), Page(NoEl, <<<<NoTitle(1)>>>>)}

ProbeInputs ==
    {Single(SiteConfig("s", 1, 1, 1, 1), p, AllFail) : p \in ProbePages}
    \cup
    {Single(SiteConfig("s", 1, 1, 1, 1), p, eps)
       : p \in {Page(NoEl, <<<<Good(1)>>>>), Page(NoEl, <<<<>>>>)},
         eps \in [1..NumEndpoints -> Bodies]}

\* a page of a registry site: selector 2 of each chain is the one that matches
RegNode(cfg, t, h, d) ==
    Node([j \in 1..cfg.nTitle |-> IF j = 2 THEN t ELSE NoEl],
         [j \in 1..cfg.nLink |-> IF j = 2 THEN LinkEl(h) ELSE NoEl],
         [j \in 1..cfg.nDate |-> IF j = 2 THEN d ELSE NoEl])

RegPage(cfg, l) == Page(NoEl, [i \in 1..cfg.nItem |-> IF i = 2 THEN l ELSE <<>>])

RegPages(cfg) ==
    {NoPage,
     RegPage(cfg, <<>>),
     RegPage(cfg, <<RegNode(cfg, NoEl, 1, NoEl)>>),
     RegPage(cfg, <<RegNode(cfg, TextEl(<<"a">>), 1, NoEl),
                    RegNode(cfg, TextEl(<<"b">>), 2, NoEl)>>),
     RegPage(cfg, <<RegNode(cfg, TextEl(<<>>), 1, NoEl)>>),
     RegPage(cfg, <<RegNode(cfg, TextEl(<<"a">>), 1,
                            TextEl(<<"1", "2", ".", "3", "0", ".", "2", "4">>))>>)}

Slugs == {Registry[i].slug : i \in 1..Len(Registry)}

CfgOf(slug) == CHOOSE c \in {Registry[i] : i \in 1..Len(Registry)} : c.slug = slug

RegistryInputs ==
    {Input(Registry, [s \in Slugs |-> pages[s]], [s \in Slugs |-> AllFail],
           [s \in Slugs |-> old])
       : pages \in {f \in [Slugs -> UNION {RegPages(CfgOf(s)) : s \in Slugs}]
                      : \A s \in Slugs : f[s] \in RegPages(CfgOf(s))},
         old \in {Absent, Stale}}

Inputs ==
    LinkInputs \cup TitleInputs \cup DateInputs \cup ContainerInputs
    \cup ListInputs \cup CapInputs \cup ProbeInputs \cup RegistryInputs

Init ==
    /\ \E inp \in Inputs :
          /\ configs = inp.configs
          /\ web = inp.web
          /\ endpoints = inp.endpoints
          /\ files = inp.files
    /\ stdout = <<>>
    /\ pc = "main"
    /\ idx = 0
    /\ soup = NoPage
    /\ pi = 0 /\ guessed = 0 /\ si = 0 /\ container = <<>> /\ k = 0
    /\ items = <<>> /\ origin = <<>> /\ fg = <<>> /\ ne = 0
    /\ clock = 0
    /\ err = "none"

Spec == Init /\ [][Next]_vars

-----------------------------------------------------------------------------
(* Properties.                                                             *)

\* scrape_items is running, or has ended, on the page of the current site
InScrape ==
    \/ pc \in {"probe", "select", "items", "feed"}
    \/ pc = "failed" /\ err # "TransportError"

\* the container is chosen and belongs to the current site
InItems ==
    \/ pc \in {"items", "feed"}
    \/ pc = "failed" /\ err \in {"NoneParsable", "ValueError", "FeedError"}

NoMatch == \A i \in 1..Cfg.nItem : soup.found[i] = <<>>

HasTitle(it) == \E j \in 1..Cfg.nTitle : it.title[j].match

HasHref(el) == el.match /\ el.href > 0

HasLink(it) == \E j \in 1..Cfg.nLink : HasHref(it.link[j])

FirstTitle(it) ==
    it.title[CHOOSE j \in 1..Cfg.nTitle :
                 /\ it.title[j].match
                 /\ \A i \in 1..(j - 1) : ~it.title[i].match]

FirstLink(it) ==
    it.link[CHOOSE j \in 1..Cfg.nLink :
                /\ HasHref(it.link[j])
                /\ \A i \in 1..(j - 1) : ~HasHref(it.link[i])]

FirstDate(it) ==
    it.date[CHOOSE j \in 1..Cfg.nDate :
                /\ it.date[j].match
                /\ \A i \in 1..(j - 1) : ~it.date[i].match]

\* C1: every returned item comes from an element one of whose link selectors
\* yields an element with a non-empty href, and links to the first such href;
\* an element without one is dropped.
C1_LinkRequiresHref ==
    InItems =>
        \A n \in 1..Len(items) :
            LET it == container[origin[n]] IN
            /\ HasLink(it)
            /\ items[n].link = urljoin(Cfg.slug, FirstLink(it).href)

\* C2: date extraction never raises, and an item whose date text has fewer
\* than three digit groups, or three that are no day/month/year, carries the
\* default "now".
C2_DateNeverRaises ==
    /\ err # "ValueError"
    /\ InItems =>
          \A n \in 1..Len(items) :
              LET it == container[origin[n]] IN
              (\E j \in 1..Cfg.nDate : it.date[j].match) =>
                  LET parts == FindDigits(clean(FirstDate(it).text)) IN
                  (Len(parts) < 3
                     \/ ~ValidDate(ToInt(parts[3]), ToInt(parts[2]), ToInt(parts[1])))
                    => items[n].date.now

\* C3: the written feed has one entry per extracted item, in extraction order.
C3_FeedInItemOrder ==
    (pc = "main" /\ idx > 0) =>
        files[configs[idx].slug] = [n \in 1..Len(items) |-> EntryOf(items[n])]

\* C4: only the first 30 elements of the container are considered: every item
\* stems from one of them, and there are at most 30 items.
C4_Cap ==
    InItems =>
        /\ k <= Cap
        /\ Len(items) <= Cap
        /\ \A n \in 1..Len(items) :
              /\ origin[n] <= Cap
              /\ items[n] = ItemOf(Cfg, container[origin[n]], items[n].date.t)

C4_Witness ==
    /\ pc = "feed"
    /\ Len(container) > Cap
    /\ ~Dropped(TitleOf(Cfg, container[Cap + 1]), LinkOf(Cfg, container[Cap + 1]))
    /\ Dropped(TitleOf(Cfg, container[1]), LinkOf(Cfg, container[1]))
    /\ Len(items) < Cap

\* C5: when the page is fetched and no item selector matches, scrape_items
\* ends with the "no container" error and no other, and that error is raised
\* only then.
C5_NoContainer ==
    InScrape =>
        /\ NoMatch =>
              /\ pc \in {"probe", "select", "failed"}
              /\ err \in {"none", "NoContainer"}
        /\ (pc = "select" /\ si = Cfg.nItem /\ NoMatch) => ENABLED NoContainer
        /\ err = "NoContainer" => NoMatch /\ items = <<>>

C5_Witness ==
    /\ pc = "failed"
    /\ err = "NoContainer"
    /\ Cfg.nItem >= 2
    /\ web[Cfg.slug].status = "ok"

\* C6: when a selector matches and every candidate lacks a title element or
\* a link element with a non-empty href, scrape_items ends with the "none
\* parsable" error: it returns no list and raises nothing else.
C6_NoneParsable ==
    (InItems /\ \A p \in 1..Len(Candidates(container)) :
                    ~HasTitle(container[p]) \/ ~HasLink(container[p]))
        => /\ pc \in {"items", "failed"}
           /\ err \in {"none", "NoneParsable"}
           /\ items = <<>>

\* the "OK -> <path>" lines printed so far
OkLines == SelectSeq(stdout, LAMBDA l : l.kind = "ok")

\* C7: the sites are processed in registry order and a failure ends the run:
\* exactly the sites before the failing one have their file written and
\* their OK line printed, and nothing happens after the failure.
C7_RunnerOrder ==
    /\ idx <= Len(configs)
    /\ OkLines = [n \in 1..idx |-> Line("ok", configs[n].slug, 0)]
    /\ \A n \in 1..Len(configs) :
          IF n <= idx
          THEN files[configs[n].slug] \notin {Absent, Stale}
          ELSE files[configs[n].slug] \in {Absent, Stale}
    /\ err # "none" => pc = "failed" /\ idx < Len(configs)
    /\ pc = "failed" => err # "none" /\ ~ENABLED Next
    /\ pc = "done" => idx = Len(configs)

C7_Witness ==
    /\ pc = "failed"
    /\ err = "NoneParsable"
    /\ idx = 2
    /\ Len(OkLines) = 2
    /\ files[configs[3].slug] = Stale

\* C8: no returned item has the empty title.
C8_TitleNonEmpty ==
    InItems => \A n \in 1..Len(items) : items[n].title # <<>>

\* C9: the container is the match list of the first item selector that
\* matches, no later selector is consulted, and an item's title is the text
\* of the first title selector that matches in it, empty or not.
C9_FirstMatchWins ==
    /\ (pc = "select" \/ (pc = "failed" /\ err = "NoContainer")) =>
          /\ container = <<>>
          /\ \A i \in 1..si : soup.found[i] = <<>>
    /\ InItems =>
          /\ si \in 1..Cfg.nItem
          /\ container = soup.found[si]
          /\ container # <<>>
          /\ \A i \in 1..(si - 1) : soup.found[i] = <<>>
          /\ \A n \in 1..Len(items) :
                LET it == container[origin[n]] IN
                /\ HasTitle(it)
                /\ items[n].title = clean(FirstTitle(it).text)

C9_Witness ==
    /\ pc = "feed"
    /\ Cfg.nItem = 2 /\ Cfg.nTitle = 2
    /\ si = 1
    /\ Len(soup.found[2]) > Len(soup.found[1])
    /\ container[1].title[1].match /\ clean(container[1].title[1].text) = <<>>
    /\ container[1].title[2].match /\ clean(container[1].title[2].text) # <<>>
    /\ Len(items) = 1 /\ items[1].title = <<>>

\* the first guessed endpoint whose body looks like a feed, 0 for none
FirstFeed(eps) ==
    IF \E j \in 1..NumEndpoints : LooksLikeFeed(eps[j])
    THEN CHOOSE j \in 1..NumEndpoints :
             /\ LooksLikeFeed(eps[j])
             /\ \A i \in 1..(j - 1) : ~LooksLikeFeed(eps[i])
    ELSE 0

ProbeState ==
    /\ pc = "probe" =>
          /\ guessed = 0
          /\ err = "none"
          /\ \A j \in 1..pi : ~LooksLikeFeed(endpoints[Cfg.slug][j])
    /\ (InScrape /\ pc # "probe") =>
          /\ guessed = FirstFeed(endpoints[Cfg.slug])
          /\ pi = IF guessed = 0 THEN NumEndpoints ELSE guessed
    /\ (pc = "failed" /\ err = "TransportError") => web[Cfg.slug].status = "fail"

ProbeFrame ==
    pc = "probe" =>
        /\ UNCHANGED <<soup, si, container, k, items, origin, fg, ne, files, err, idx>>
        /\ pc' \in {"probe", "select"}

\* C10: try_fetch_rss skips the candidates whose fetch fails, returns the
\* first candidate whose body looks like a feed, else nothing, and raises
\* nothing; and the probe leaves everything the extraction works on alone.
C10_ProbeAdvisory == []ProbeState /\ [][ProbeFrame]_vars

C10_Witness ==
    /\ pc = "feed"
    /\ endpoints[Cfg.slug][1] = "fail"
    /\ endpoints[Cfg.slug][2] = "plain"
    /\ endpoints[Cfg.slug][3] = "feed"
    /\ endpoints[Cfg.slug][4] = "rss"
    /\ guessed = 3
    /\ items # <<>>

====
